---- MODULE Spec2Model ----
(***************************************************************************)
(* VonMisesTube (openaerostruct/structures/vonmises_tube.py): the von      *)
(* Mises stress of every element of a tube beam, computed element by       *)
(* element in a local frame held in the instance's scratch matrix self.T,  *)
(* and the accumulation of the backend's tangents and adjoints into the    *)
(* host's derivative buffers.                                              *)
(*                                                                         *)
(* Scalars are modelled as fixed-point numbers with SCALE units per one,   *)
(* every operation rounding toward zero, extended with the non-finite      *)
(* values of the array library (nan, +inf, -inf).  A scalar is a pair      *)
(* <<kind, n>>: <<"f", n>> is the finite value n / SCALE, <<"nan", 0>> is  *)
(* not-a-number, <<"inf", s>> is the infinity of sign s.  Only the real    *)
(* part of a scalar is modelled.                                           *)
(***************************************************************************)
EXTENDS Integers, Sequences, FiniteSets, TLC

\* Units per one of the scalar type data_type.
SCALE == 1000

\* ------------------------------------------------------------------------
\* Scalar arithmetic of data_type
\* ------------------------------------------------------------------------

Fin(n) == <<"f", n>>
NaN == <<"nan", 0>>
Inf(s) == <<"inf", s>>
Num(k) == Fin(k * SCALE)
Zero == Fin(0)

IsFin(a) == a[1] = "f"
IsNaN(a) == a[1] = "nan"
IsInf(a) == a[1] = "inf"

Abs(n) == IF n < 0 THEN -n ELSE n
Sgn(n) == IF n < 0 THEN -1 ELSE 1

\* Integer quotient rounded toward zero.
TruncDiv(a, b) == Sgn(a) * Sgn(b) * (Abs(a) \div Abs(b))

\* Largest r in lo..hi with r * r <= n (lo * lo <= n assumed).
RECURSIVE ISqrtIn(_, _, _)
ISqrtIn(n, lo, hi) ==
    IF lo >= hi THEN lo
    ELSE LET mid == (lo + hi + 1) \div 2
         IN  IF mid * mid <= n THEN ISqrtIn(n, mid, hi)
                               ELSE ISqrtIn(n, lo, mid - 1)

ISqrt(n) == ISqrtIn(n, 0, 46340)

FNeg(a) ==
    IF IsFin(a) THEN Fin(-a[2])
    ELSE IF IsInf(a) THEN Inf(-a[2])
    ELSE NaN

FAdd(a, b) ==
    IF IsNaN(a) \/ IsNaN(b) THEN NaN
    ELSE IF IsFin(a) /\ IsFin(b) THEN Fin(a[2] + b[2])
    ELSE IF IsInf(a) /\ IsInf(b) THEN (IF a[2] = b[2] THEN a ELSE NaN)
    ELSE IF IsInf(a) THEN a
    ELSE b

FSub(a, b) == FAdd(a, FNeg(b))

FMul(a, b) ==
    IF IsNaN(a) \/ IsNaN(b) THEN NaN
    ELSE IF IsFin(a) /\ IsFin(b) THEN Fin(TruncDiv(a[2] * b[2], SCALE))
    ELSE IF (IsFin(a) /\ a[2] = 0) \/ (IsFin(b) /\ b[2] = 0) THEN NaN
    ELSE Inf(Sgn(a[2]) * Sgn(b[2]))

FDiv(a, b) ==
    IF IsNaN(a) \/ IsNaN(b) THEN NaN
    ELSE IF IsInf(a) /\ IsInf(b) THEN NaN
    ELSE IF IsInf(a) THEN Inf(a[2] * Sgn(b[2]))
    ELSE IF IsInf(b) THEN Zero
    ELSE IF b[2] = 0 THEN (IF a[2] = 0 THEN NaN ELSE Inf(Sgn(a[2])))
    ELSE Fin(TruncDiv(a[2] * SCALE, b[2]))

FSqrt(a) ==
    IF IsNaN(a) THEN NaN
    ELSE IF IsInf(a) THEN (IF a[2] > 0 THEN a ELSE NaN)
    ELSE IF a[2] < 0 THEN NaN
    ELSE Fin(ISqrt(a[2] * SCALE))

FSq(a) == FMul(a, a)

\* ------------------------------------------------------------------------
\* Vectors of three scalars
\* ------------------------------------------------------------------------

Vec(x, y, z) == <<Num(x), Num(y), Num(z)>>
VSub(a, b) == <<FSub(a[1], b[1]), FSub(a[2], b[2]), FSub(a[3], b[3])>>
Dot3(a, b) == FAdd(FAdd(FMul(a[1], b[1]), FMul(a[2], b[2])), FMul(a[3], b[3]))

\* np.cross(a, b)
cross(a, b) ==
    << FSub(FMul(a[2], b[3]), FMul(a[3], b[2])),
       FSub(FMul(a[3], b[1]), FMul(a[1], b[3])),
       FSub(FMul(a[1], b[2]), FMul(a[2], b[1])) >>

\* openaerostruct.structures.utils.norm: the Euclidean norm
norm(v) == FSqrt(FAdd(FAdd(FSq(v[1]), FSq(v[2])), FSq(v[3])))

\* openaerostruct.structures.utils.unit: v / |v|
unit(v) == LET n == norm(v) IN <<FDiv(v[1], n), FDiv(v[2], n), FDiv(v[3], n)>>

\* T.dot(v): the matrix-vector product of a 3x3 matrix with a 3-vector
MatDot(M, v) == <<Dot3(M[1], v), Dot3(M[2], v), Dot3(M[3], v)>>

\* ------------------------------------------------------------------------
\* Bounds of the model and the host's input values
\* ------------------------------------------------------------------------

\* Largest node count num_y of a surface.
MaxNy == 3
\* Number of compute_jacvec_product calls the host makes.
MaxJacCalls == 2

NySet == 2..MaxNy
EVals == {Num(2), Num(3)}
GVals == {Num(1)}

\* Node positions the host may supply.
Points == {Vec(0, 0, 0), Vec(0, 3, 4), Vec(2, 0, 0)}
\* Element radii the host may supply.
Radii == {Num(1), Num(2)}
\* Nodal displacements the host may supply: three translations, three rotations.
ZeroVec == <<Zero, Zero, Zero>>
ZeroMat == <<ZeroVec, ZeroVec, ZeroVec>>
ZeroDisp == <<Zero, Zero, Zero, Zero, Zero, Zero>>
ZeroPair == <<Zero, Zero>>

DispA == <<Num(0), Num(3), Num(4), Num(2), Num(1), Num(0)>>
DispB == <<Num(1), Num(0), Num(2), Num(2), Num(1), Num(0)>>
Disps == {ZeroDisp, DispA, DispB}

\* disp[i, :3] and disp[i, 3:]
Trans(d) == <<d[1], d[2], d[3]>>
Rot(d) == <<d[4], d[5], d[6]>>

\* ------------------------------------------------------------------------
\* State
\* ------------------------------------------------------------------------

VARIABLES
    fortran_flag,   \* module flag: the compiled backend OAS_API was imported
    ny,             \* self.ny
    E,              \* self.E
    G,              \* self.G
    T,              \* self.T, the 3x3 scratch frame of the instance
    pc,             \* per call frame: position in compute
    inputs,         \* per call frame: inputs['nodes'], ['radius'], ['disp']
    outputs,        \* per call frame: outputs['vonmises']
    ielem,          \* per call frame: loop variable of compute
    loc,            \* per call frame: locals L, x_loc, y_loc, z_loc, u0, r0, u1, r1
    entryT,         \* per call frame: self.T as it was when compute was entered
    d_inputs,       \* d_inputs['nodes'], ['radius'], ['disp']
    d_outputs,      \* d_outputs['vonmises']
    jac,            \* the backend's Jacobian at the current inputs
    jv              \* log of the compute_jacvec_product calls: mode, buffers before, returns

vars == <<fortran_flag, ny, E, G, T, pc, inputs, outputs, ielem, loc, entryT,
          d_inputs, d_outputs, jac, jv>>

cfgVars == <<fortran_flag, ny, E, G>>
jacVars == <<d_inputs, d_outputs, jac, jv>>

\* self.x_gl = np.array([1, 0, 0])
x_gl == Vec(1, 0, 0)

NoLocals ==
    [L |-> Zero, x_loc |-> ZeroVec, y_loc |-> ZeroVec, z_loc |-> ZeroVec,
     u0 |-> ZeroVec, r0 |-> ZeroVec, u1 |-> ZeroVec, r1 |-> ZeroVec]

\* The vectors add_input and add_output register: all zero.
ZeroInputs(n) ==
    [nodes |-> [i \in 1..n |-> ZeroVec],
     radius |-> [i \in 1..(n - 1) |-> Zero],
     disp |-> [i \in 1..n |-> ZeroDisp]]

ZeroOutputs(n) == [vonmises |-> [i \in 1..(n - 1) |-> ZeroPair]]

\* a, b, a, b, ...: a sequence of n entries
Alternate(n, a, b) == [i \in 1..n |-> IF i % 2 = 1 THEN a ELSE b]

\* a, b, c, a, b, c, ...: a sequence of n entries
Cycle(n, a, b, c) ==
    [i \in 1..n |-> IF i % 3 = 1 THEN a ELSE IF i % 3 = 2 THEN b ELSE c]

\* The stretched beam of the specification's scenario, repeated over n nodes:
\* nodes (0,0,0) and (1,0,1) in turn, radius 0.1, every second node moved
\* along the element axis with no rotation.
ScenarioInputs(n) ==
    [nodes |-> Alternate(n, Vec(0, 0, 0), Vec(1, 0, 1)),
     radius |-> [i \in 1..(n - 1) |-> Fin(SCALE \div 10)],
     disp |-> Alternate(n, ZeroDisp, <<Num(1), Num(0), Num(1), Num(0), Num(0), Num(0)>>)]

\* The input vectors a host may set on a surface of n nodes: every choice of
\* the first three nodes, the first two radii and the first three
\* displacements, repeated along the beam, and the scenario beam.
InputSet(n) ==
    [nodes : {Cycle(n, a, b, c) : a \in Points, b \in Points, c \in Points},
     radius : {Alternate(n - 1, r, q) : r \in Radii, q \in Radii},
     disp : {Cycle(n, a, b, c) : a \in Disps, b \in Disps, c \in Disps}]
        \cup {ScenarioInputs(n)}

\* ------------------------------------------------------------------------
\* compute: the stress formulas of one element
\* ------------------------------------------------------------------------

\* Bend with the end rotations added where the code subtracts them.
Bend_Sum(r0, r1) == FSqrt(FAdd(FSq(FAdd(r1[2], r0[2])), FSq(FAdd(r1[3], r0[3]))))

\* tmp = np.sqrt((r1y - r0y)**2 + (r1z - r0z)**2)
Bend(r0, r1) == FSqrt(FAdd(FSq(FSub(r1[2], r0[2])), FSq(FSub(r1[3], r0[3]))))

\* Sxx0 with the bending term E * radius / L added to tmp, not multiplied by it.
Sxx0_AddBend(e, r, L, u0, u1, tmp) ==
    FAdd(FDiv(FMul(e, FSub(u1[1], u0[1])), L), FAdd(FDiv(FMul(e, r), L), tmp))

\* sxx0 = E * (u1x - u0x) / L + E * radius[ielem] / L * tmp
Sxx0(e, r, L, u0, u1, tmp) ==
    FAdd(FDiv(FMul(e, FSub(u1[1], u0[1])), L), FMul(FDiv(FMul(e, r), L), tmp))

\* sxx1 = E * (u0x - u1x) / L + E * radius[ielem] / L * tmp
Sxx1(e, r, L, u0, u1, tmp) ==
    FAdd(FDiv(FMul(e, FSub(u0[1], u1[1])), L), FMul(FDiv(FMul(e, r), L), tmp))

\* sxt = G * radius[ielem] * (r1x - r0x) / L
Sxt(g, r, L, r0, r1) == FDiv(FMul(FMul(g, r), FSub(r1[1], r0[1])), L)

\* The pair written to vonmises[ielem, 0] and vonmises[ielem, 1].
StressPair(e, g, r, L, u0, r0, u1, r1) ==
    LET tmp == Bend(r0, r1)
        sxx0 == Sxx0(e, r, L, u0, u1, tmp)
        sxx1 == Sxx1(e, r, L, u0, u1, tmp)
        sxt == Sxt(g, r, L, r0, r1)
    IN  << FSqrt(FAdd(FSq(sxx0), FSq(sxt))), FSqrt(FAdd(FSq(sxx1), FSq(sxt))) >>

\* ------------------------------------------------------------------------
\* compute: one call frame t stepping through the element loop
\* ------------------------------------------------------------------------

\* P0 = nodes[ielem, :] and P1 = nodes[ielem+1, :] of call frame t
P0(t) == inputs[t].nodes[ielem[t] + 1]
P1(t) == inputs[t].nodes[ielem[t] + 2]

Idle(t) == pc[t] \in {"idle", "done"}
Done(t) == pc[t] = "done"

\* The host sets the input vectors of call frame t to `inp` and calls compute,
\* which binds its locals and, without the backend, enters the loop.
CallWith(t, inp) ==
    /\ Idle(t)
    /\ ~fortran_flag
    /\ inputs' = [inputs EXCEPT ![t] = inp]
    /\ pc' = [pc EXCEPT ![t] = IF ny - 1 > 0 THEN "frame" ELSE "done"]
    /\ ielem' = [ielem EXCEPT ![t] = 0]
    /\ loc' = [loc EXCEPT ![t] = NoLocals]
    /\ entryT' = [entryT EXCEPT ![t] = T]
    /\ UNCHANGED <<cfgVars, T, outputs, jacVars>>

\* unit with a guard: the vector itself when its norm is zero.
unit_Guarded(v) == IF norm(v) = Zero THEN v ELSE unit(v)

\* StepFrame with the guarded unit, and a unit length for a zero-length element.
StepFrame_Guarded(t) ==
    /\ pc[t] = "frame"
    /\ LET x == unit_Guarded(VSub(P1(t), P0(t)))
           y == unit_Guarded(cross(x, x_gl))
           z == unit_Guarded(cross(x, y))
           n == norm(VSub(P1(t), P0(t)))
       IN  loc' = [loc EXCEPT ![t].L = IF n = Zero THEN Num(1) ELSE n,
                              ![t].x_loc = x, ![t].y_loc = y, ![t].z_loc = z]
    /\ pc' = [pc EXCEPT ![t] = "T0"]
    /\ UNCHANGED <<cfgVars, entryT, T, inputs, outputs, ielem, jacVars>>

\* L = norm(P1 - P0); x_loc, y_loc, z_loc = the local axes of the element
StepFrame(t) ==
    /\ pc[t] = "frame"
    /\ LET x == unit(VSub(P1(t), P0(t)))
           y == unit(cross(x, x_gl))
           z == unit(cross(x, y))
       IN  loc' = [loc EXCEPT ![t].L = norm(VSub(P1(t), P0(t))),
                              ![t].x_loc = x, ![t].y_loc = y, ![t].z_loc = z]
    /\ pc' = [pc EXCEPT ![t] = "T0"]
    /\ UNCHANGED <<cfgVars, entryT, T, inputs, outputs, ielem, jacVars>>

\* T[0, :] = x_loc
StepT0(t) ==
    /\ pc[t] = "T0"
    /\ T' = [T EXCEPT ![1] = loc[t].x_loc]
    /\ pc' = [pc EXCEPT ![t] = "T1"]
    /\ UNCHANGED <<cfgVars, entryT, inputs, outputs, ielem, loc, jacVars>>

\* StepT1 writing y_loc to the third row of T, not the second.
StepT1_WrongRow(t) ==
    /\ pc[t] = "T1"
    /\ T' = [T EXCEPT ![3] = loc[t].y_loc]
    /\ pc' = [pc EXCEPT ![t] = "T2"]
    /\ UNCHANGED <<cfgVars, entryT, inputs, outputs, ielem, loc, jacVars>>

\* T[1, :] = y_loc
StepT1(t) ==
    /\ pc[t] = "T1"
    /\ T' = [T EXCEPT ![2] = loc[t].y_loc]
    /\ pc' = [pc EXCEPT ![t] = "T2"]
    /\ UNCHANGED <<cfgVars, entryT, inputs, outputs, ielem, loc, jacVars>>

\* StepT2 without the write of the third row.
StepT2_Skip(t) ==
    /\ pc[t] = "T2"
    /\ pc' = [pc EXCEPT ![t] = "dot0"]
    /\ UNCHANGED <<cfgVars, entryT, T, inputs, outputs, ielem, loc, jacVars>>

\* T[2, :] = z_loc
StepT2(t) ==
    /\ pc[t] = "T2"
    /\ T' = [T EXCEPT ![3] = loc[t].z_loc]
    /\ pc' = [pc EXCEPT ![t] = "dot0"]
    /\ UNCHANGED <<cfgVars, entryT, inputs, outputs, ielem, loc, jacVars>>

\* u0x, u0y, u0z = T.dot(disp[ielem, :3])
StepDot0(t) ==
    /\ pc[t] = "dot0"
    /\ loc' = [loc EXCEPT ![t].u0 = MatDot(T, Trans(inputs[t].disp[ielem[t] + 1]))]
    /\ pc' = [pc EXCEPT ![t] = "dot1"]
    /\ UNCHANGED <<cfgVars, entryT, T, inputs, outputs, ielem, jacVars>>

\* r0x, r0y, r0z = T.dot(disp[ielem, 3:])
StepDot1(t) ==
    /\ pc[t] = "dot1"
    /\ loc' = [loc EXCEPT ![t].r0 = MatDot(T, Rot(inputs[t].disp[ielem[t] + 1]))]
    /\ pc' = [pc EXCEPT ![t] = "dot2"]
    /\ UNCHANGED <<cfgVars, entryT, T, inputs, outputs, ielem, jacVars>>

\* u1x, u1y, u1z = T.dot(disp[ielem+1, :3])
StepDot2(t) ==
    /\ pc[t] = "dot2"
    /\ loc' = [loc EXCEPT ![t].u1 = MatDot(T, Trans(inputs[t].disp[ielem[t] + 2]))]
    /\ pc' = [pc EXCEPT ![t] = "dot3"]
    /\ UNCHANGED <<cfgVars, entryT, T, inputs, outputs, ielem, jacVars>>

\* r1x, r1y, r1z = T.dot(disp[ielem+1, 3:])
StepDot3(t) ==
    /\ pc[t] = "dot3"
    /\ loc' = [loc EXCEPT ![t].r1 = MatDot(T, Rot(inputs[t].disp[ielem[t] + 2]))]
    /\ pc' = [pc EXCEPT ![t] = "stress"]
    /\ UNCHANGED <<cfgVars, entryT, T, inputs, outputs, ielem, jacVars>>

\* StepStress adding the pair to vonmises[ielem] where the code assigns it.
StepStress_Accumulate(t) ==
    /\ pc[t] = "stress"
    /\ LET p == StressPair(E, G, inputs[t].radius[ielem[t] + 1], loc[t].L,
                           loc[t].u0, loc[t].r0, loc[t].u1, loc[t].r1)
           old == outputs[t].vonmises[ielem[t] + 1]
       IN  outputs' = [outputs EXCEPT ![t].vonmises[ielem[t] + 1] =
                           <<FAdd(old[1], p[1]), FAdd(old[2], p[2])>>]
    /\ IF ielem[t] + 1 < ny - 1
       THEN /\ ielem' = [ielem EXCEPT ![t] = ielem[t] + 1]
            /\ pc' = [pc EXCEPT ![t] = "frame"]
            /\ loc' = loc
       ELSE /\ ielem' = ielem
            /\ pc' = [pc EXCEPT ![t] = "done"]
            /\ loc' = [loc EXCEPT ![t] = NoLocals]
    /\ UNCHANGED <<cfgVars, entryT, T, inputs, jacVars>>

\* tmp, sxx0, sxx1, sxt; vonmises[ielem, 0] and vonmises[ielem, 1] are written;
\* the loop goes on to the next element or compute returns.
StepStress(t) ==
    /\ pc[t] = "stress"
    /\ outputs' = [outputs EXCEPT ![t].vonmises[ielem[t] + 1] =
           StressPair(E, G, inputs[t].radius[ielem[t] + 1], loc[t].L,
                      loc[t].u0, loc[t].r0, loc[t].u1, loc[t].r1)]
    /\ IF ielem[t] + 1 < ny - 1
       THEN /\ ielem' = [ielem EXCEPT ![t] = ielem[t] + 1]
            /\ pc' = [pc EXCEPT ![t] = "frame"]
            /\ loc' = loc
       ELSE /\ ielem' = ielem
            /\ pc' = [pc EXCEPT ![t] = "done"]
            /\ loc' = [loc EXCEPT ![t] = NoLocals]
    /\ UNCHANGED <<cfgVars, entryT, T, inputs, jacVars>>

Step(t) ==
    \/ StepFrame(t)
    \/ StepT0(t)
    \/ StepT1(t)
    \/ StepT2(t)
    \/ StepDot0(t)
    \/ StepDot1(t)
    \/ StepDot2(t)
    \/ StepDot3(t)
    \/ StepStress(t)

\* ------------------------------------------------------------------------
\* compute as a function: the loop run alone on a freshly built instance
\* ------------------------------------------------------------------------

\* x_loc, y_loc, z_loc of the element from p0 to p1
ElemFrame(p0, p1) ==
    LET x == unit(VSub(p1, p0))
        y == unit(cross(x, x_gl))
        z == unit(cross(x, y))
    IN  <<x, y, z>>

\* One element of the loop: the frame is written to the scratch matrix M row
\* by row, the four products read it, the stresses follow.
ElemBody(M, e, g, p0, p1, r, d0, d1) ==
    LET L == norm(VSub(p1, p0))
        F == ElemFrame(p0, p1)
        M3 == [[[M EXCEPT ![1] = F[1]] EXCEPT ![2] = F[2]] EXCEPT ![3] = F[3]]
    IN  [T |-> M3,
         vm |-> StressPair(e, g, r, L, MatDot(M3, Trans(d0)), MatDot(M3, Rot(d0)),
                           MatDot(M3, Trans(d1)), MatDot(M3, Rot(d1)))]

RECURSIVE LoopFrom(_, _, _, _, _, _, _)
LoopFrom(i, n, M, vm, e, g, inp) ==
    IF i >= n - 1 THEN vm
    ELSE LET b == ElemBody(M, e, g, inp.nodes[i + 1], inp.nodes[i + 2],
                           inp.radius[i + 1], inp.disp[i + 1], inp.disp[i + 2])
         IN  LoopFrom(i + 1, n, b.T, [vm EXCEPT ![i + 1] = b.vm], e, g, inp)

\* vonmises after compute on an instance whose T is still np.zeros((3, 3)).
RunAlone(n, e, g, inp) == LoopFrom(0, n, ZeroMat, ZeroOutputs(n).vonmises, e, g, inp)

\* The two-node beam made of element i (1-based) of inp alone.
SubBeam(inp, i) ==
    [nodes |-> <<inp.nodes[i], inp.nodes[i + 1]>>,
     radius |-> <<inp.radius[i]>>,
     disp |-> <<inp.disp[i], inp.disp[i + 1]>>]

\* OAS_API.oas_api.calc_vonmises: the compiled evaluation of the same formulas.
calc_vonmises(n, e, g, inp) ==
    [i \in 1..(n - 1) |->
        ElemBody(ZeroMat, e, g, inp.nodes[i], inp.nodes[i + 1], inp.radius[i],
                 inp.disp[i], inp.disp[i + 1]).vm]

\* compute with the backend: vm = calc_vonmises(...); outputs['vonmises'] = vm
ComputeFortranWith(t, inp) ==
    /\ Idle(t)
    /\ fortran_flag
    /\ inputs' = [inputs EXCEPT ![t] = inp]
    /\ outputs' = [outputs EXCEPT ![t].vonmises = calc_vonmises(ny, E, G, inp)]
    /\ pc' = [pc EXCEPT ![t] = "done"]
    /\ entryT' = [entryT EXCEPT ![t] = T]
    /\ UNCHANGED <<cfgVars, T, ielem, loc, jacVars>>

\* ------------------------------------------------------------------------
\* compute_jacvec_product
\* ------------------------------------------------------------------------

Sum3(v) == FAdd(FAdd(v[1], v[2]), v[3])
Sum6(d) == FAdd(Sum3(Trans(d)), Sum3(Rot(d)))

\* Elementwise sums of arrays, as += computes them.
AddVec(a, b) == [k \in DOMAIN a |-> FAdd(a[k], b[k])]
AddRows(a, b) == [i \in DOMAIN a |-> AddVec(a[i], b[i])]
AddScalars(a, b) == [i \in DOMAIN a |-> FAdd(a[i], b[i])]

\* OAS_API.oas_api.calc_vonmises_d: the tangent of vonmises along the seeds
\* (nodesd, radiusd, dispd), linear in them; J holds the coefficients of the
\* Jacobian at the current inputs.
calc_vonmises_d(n, J, nodesd, radiusd, dispd) ==
    [i \in 1..(n - 1) |->
        << FAdd(FAdd(FMul(J.kn, FSub(Sum3(nodesd[i + 1]), Sum3(nodesd[i]))),
                     FMul(J.kr, radiusd[i])),
                FMul(J.kd, FSub(Sum6(dispd[i + 1]), Sum6(dispd[i])))),
           FMul(J.kr, radiusd[i]) >>]

\* The seed of element i, zero outside 1..n-1.
SeedAt(n, vonmisesb, i) == IF i \in 1..(n - 1) THEN vonmisesb[i][1] ELSE Zero

\* OAS_API.oas_api.calc_vonmises_b: the adjoints of nodes, radius and disp for
\* the seed vonmisesb, the transpose of calc_vonmises_d.
calc_vonmises_b(n, J, vonmisesb) ==
    [nodesb |-> [j \in 1..n |->
        LET c == FMul(J.kn, FSub(SeedAt(n, vonmisesb, j - 1), SeedAt(n, vonmisesb, j)))
        IN  <<c, c, c>>],
     radiusb |-> [i \in 1..(n - 1) |->
        FMul(J.kr, FAdd(vonmisesb[i][1], vonmisesb[i][2]))],
     dispb |-> [j \in 1..n |->
        LET c == FMul(J.kd, FSub(SeedAt(n, vonmisesb, j - 1), SeedAt(n, vonmisesb, j)))
        IN  <<c, c, c, c, c, c>>]]

NoReturn == [vonmisesd |-> <<>>, nodesb |-> <<>>, radiusb |-> <<>>, dispb |-> <<>>]

\* The log entry of one call: its mode, whether it returned or raised, the
\* vectors and buffers as they were at the call, and what the backend returned.
LogEntry(mode, status, ret) ==
    [mode |-> mode, status |-> status, d_inputs |-> d_inputs, d_outputs |-> d_outputs,
     inputs |-> inputs[1], outputs |-> outputs[1], ret |-> ret]

\* JacVecFwd assigning the tangent to the buffer where the code adds it.
JacVecFwd_Overwrite ==
    /\ Len(jv) < MaxJacCalls
    /\ fortran_flag
    /\ LET vonmisesd == calc_vonmises_d(ny, jac, d_inputs.nodes, d_inputs.radius,
                                        d_inputs.disp)
       IN  /\ d_outputs' = [vonmises |-> vonmisesd]
           /\ jv' = Append(jv, LogEntry("fwd", "returned",
                                        [NoReturn EXCEPT !.vonmisesd = vonmisesd]))
    /\ UNCHANGED <<cfgVars, entryT, T, pc, inputs, outputs, ielem, loc, d_inputs, jac>>

\* mode == 'fwd': d_outputs['vonmises'] += vonmisesd
JacVecFwd ==
    /\ Len(jv) < MaxJacCalls
    /\ fortran_flag
    /\ LET vonmisesd == calc_vonmises_d(ny, jac, d_inputs.nodes, d_inputs.radius,
                                        d_inputs.disp)
       IN  /\ d_outputs' = [vonmises |-> AddRows(d_outputs.vonmises, vonmisesd)]
           /\ jv' = Append(jv, LogEntry("fwd", "returned",
                                        [NoReturn EXCEPT !.vonmisesd = vonmisesd]))
    /\ UNCHANGED <<cfgVars, entryT, T, pc, inputs, outputs, ielem, loc, d_inputs, jac>>

\* JacVecRev assigning dispb to d_inputs['disp'] where the code adds it.
JacVecRev_OverwriteDisp ==
    /\ Len(jv) < MaxJacCalls
    /\ fortran_flag
    /\ LET b == calc_vonmises_b(ny, jac, d_outputs.vonmises)
       IN  /\ d_inputs' = [nodes |-> AddRows(d_inputs.nodes, b.nodesb),
                           radius |-> AddScalars(d_inputs.radius, b.radiusb),
                           disp |-> b.dispb]
           /\ jv' = Append(jv, LogEntry("rev", "returned",
                  [NoReturn EXCEPT !.nodesb = b.nodesb, !.radiusb = b.radiusb,
                                   !.dispb = b.dispb]))
    /\ UNCHANGED <<cfgVars, entryT, T, pc, inputs, outputs, ielem, loc, d_outputs, jac>>

\* mode == 'rev': d_inputs['nodes'] += nodesb, ['radius'] += radiusb, ['disp'] += dispb
JacVecRev ==
    /\ Len(jv) < MaxJacCalls
    /\ fortran_flag
    /\ LET b == calc_vonmises_b(ny, jac, d_outputs.vonmises)
       IN  /\ d_inputs' = [nodes |-> AddRows(d_inputs.nodes, b.nodesb),
                           radius |-> AddScalars(d_inputs.radius, b.radiusb),
                           disp |-> AddRows(d_inputs.disp, b.dispb)]
           /\ jv' = Append(jv, LogEntry("rev", "returned",
                  [NoReturn EXCEPT !.nodesb = b.nodesb, !.radiusb = b.radiusb,
                                   !.dispb = b.dispb]))
    /\ UNCHANGED <<cfgVars, entryT, T, pc, inputs, outputs, ielem, loc, d_outputs, jac>>

\* JacVecOther taking the reverse branch, as an else would.
JacVecOther_FallsToRev ==
    /\ Len(jv) < MaxJacCalls
    /\ LET b == calc_vonmises_b(ny, jac, d_outputs.vonmises)
       IN  /\ d_inputs' = [nodes |-> AddRows(d_inputs.nodes, b.nodesb),
                           radius |-> AddScalars(d_inputs.radius, b.radiusb),
                           disp |-> AddRows(d_inputs.disp, b.dispb)]
           /\ jv' = Append(jv, LogEntry("other", "returned", NoReturn))
    /\ UNCHANGED <<cfgVars, entryT, T, pc, inputs, outputs, ielem, loc, d_outputs, jac>>

\* Any other mode: neither branch is taken.
JacVecOther ==
    /\ Len(jv) < MaxJacCalls
    /\ jv' = Append(jv, LogEntry("other", "returned", NoReturn))
    /\ UNCHANGED <<cfgVars, entryT, T, pc, inputs, outputs, ielem, loc, d_inputs,
                   d_outputs, jac>>

\* mode 'fwd' or 'rev' without the backend: the name OAS_API is unbound and the
\* call raises before any buffer is touched.
JacVecNoBackend ==
    /\ Len(jv) < MaxJacCalls
    /\ ~fortran_flag
    /\ \E mode \in {"fwd", "rev"} : jv' = Append(jv, LogEntry(mode, "raised", NoReturn))
    /\ UNCHANGED <<cfgVars, entryT, T, pc, inputs, outputs, ielem, loc, d_inputs,
                   d_outputs, jac>>

\* Derivative buffers of a surface of n nodes, all zero.
ZeroSeeds(n) ==
    [nodes |-> [i \in 1..n |-> ZeroVec],
     radius |-> [i \in 1..(n - 1) |-> Zero],
     disp |-> [i \in 1..n |-> ZeroDisp]]

\* Contents the host may have left in the derivative buffers.
SeedDisp == <<Num(0), Num(1), Num(0), Num(2), Num(0), Num(0)>>

SeedVecs == {ZeroVec, Vec(1, 2, 0)}
SeedScalars == {Zero, Num(1)}
SeedPairs == {ZeroPair, <<Num(1), Num(3)>>}

SeedIn(n) ==
    [nodes : {Cycle(n, a, b, c) : a \in SeedVecs, b \in SeedVecs, c \in SeedVecs},
     radius : {Alternate(n - 1, r, q) : r \in SeedScalars, q \in SeedScalars},
     disp : {[i \in 1..n |-> ZeroDisp], Alternate(n, ZeroDisp, SeedDisp),
             Alternate(n, SeedDisp, ZeroDisp)}]

SeedOut(n) == [vonmises : {Alternate(n - 1, p, q) : p \in SeedPairs, q \in SeedPairs}]

JacSet == { [kn |-> Num(2), kr |-> Num(3), kd |-> Num(1)],
            [kn |-> Num(1), kr |-> Num(0), kd |-> Num(2)] }

\* ------------------------------------------------------------------------
\* Specifications
\* ------------------------------------------------------------------------

\* After initialize_variables, with call frames Thr: the registered vectors
\* are zero and T is np.zeros((3, 3)).
InitInstance(Thr) ==
    /\ ny \in NySet
    /\ E \in EVals
    /\ G \in GVals
    /\ T = ZeroMat
    /\ pc = [t \in Thr |-> "idle"]
    /\ inputs = [t \in Thr |-> ZeroInputs(ny)]
    /\ outputs = [t \in Thr |-> ZeroOutputs(ny)]
    /\ ielem = [t \in Thr |-> 0]
    /\ loc = [t \in Thr |-> NoLocals]
    /\ entryT = [t \in Thr |-> ZeroMat]

\* No derivative sweep is under way.
InitNoJac ==
    /\ d_inputs = ZeroSeeds(ny)
    /\ d_outputs = ZeroOutputs(ny)
    /\ jac = CHOOSE J \in JacSet : TRUE
    /\ jv = <<>>

Init ==
    /\ fortran_flag \in BOOLEAN
    /\ InitInstance({1})
    /\ InitNoJac

\* One compute call on a freshly built instance, on any input vectors.
Call == pc[1] = "idle" /\ \E inp \in InputSet(ny) : CallWith(1, inp)
ComputeFortran == pc[1] = "idle" /\ \E inp \in InputSet(ny) : ComputeFortranWith(1, inp)

Next ==
    \/ Call
    \/ ComputeFortran
    \/ Step(1)

Spec == Init /\ [][Next]_vars

\* The input vectors the host sets in a sequence of compute calls on one
\* instance.
HistInputSet(n) ==
    [nodes : {Cycle(n, a, b, c) : a \in Points, b \in Points, c \in Points},
     radius : {Alternate(n - 1, Num(1), Num(2))},
     disp : {Cycle(n, ZeroDisp, DispA, DispB), Cycle(n, DispB, DispB, DispA)}]

\* compute called again and again on the one instance and the one pair of
\* vectors, each call after the last has returned.
CallAgain == \E inp \in HistInputSet(ny) : CallWith(1, inp)
ComputeFortranAgain == \E inp \in HistInputSet(ny) : ComputeFortranWith(1, inp)

NextHist ==
    \/ CallAgain
    \/ ComputeFortranAgain
    \/ Step(1)

SpecHist == Init /\ [][NextHist]_vars

\* The input vectors of thread t, one of two that share one instance: the
\* same beam, walked from either end.
ConcInputs(n, t) ==
    [nodes |-> IF t = 1 THEN Cycle(n, Vec(0, 0, 0), Vec(0, 3, 4), Vec(2, 0, 0))
                        ELSE Cycle(n, Vec(2, 0, 0), Vec(0, 3, 4), Vec(0, 0, 0)),
     radius |-> Alternate(n - 1, Num(1), Num(2)),
     disp |-> Cycle(n, ZeroDisp, DispA, DispB)]

InitConc ==
    /\ fortran_flag = FALSE
    /\ InitInstance({1, 2})
    /\ InitNoJac

\* Two threads each call compute once on the one instance, each on its own
\* vectors; the interpreter switches between them at any statement.
CallConc ==
    \E t \in {1, 2} : pc[t] = "idle" /\ CallWith(t, ConcInputs(ny, t))
StepConc == \E t \in {1, 2} : Step(t)

NextConc ==
    \/ CallConc
    \/ StepConc

SpecConc == InitConc /\ [][NextConc]_vars

\* The instance after one compute call on the scenario beam, and the
\* derivative buffers as the host left them.
InitJac ==
    /\ fortran_flag \in BOOLEAN
    /\ ny \in NySet
    /\ E \in EVals
    /\ G \in GVals
    /\ inputs = [t \in {1} |-> ScenarioInputs(ny)]
    /\ outputs = [t \in {1} |-> [vonmises |-> RunAlone(ny, E, G, ScenarioInputs(ny))]]
    /\ T = IF fortran_flag THEN ZeroMat
           ELSE ElemFrame(ScenarioInputs(ny).nodes[ny - 1], ScenarioInputs(ny).nodes[ny])
    /\ pc = [t \in {1} |-> "done"]
    /\ ielem = [t \in {1} |-> IF fortran_flag THEN 0 ELSE ny - 2]
    /\ loc = [t \in {1} |-> NoLocals]
    /\ entryT = [t \in {1} |-> ZeroMat]
    /\ d_inputs \in SeedIn(ny)
    /\ d_outputs \in SeedOut(ny)
    /\ jac \in JacSet
    /\ jv = <<>>

\* The host calls compute_jacvec_product in any mode, call after call.
NextJac ==
    \/ JacVecFwd
    \/ JacVecRev
    \/ JacVecOther
    \/ JacVecNoBackend

SpecJac == InitJac /\ [][NextJac]_vars

\* The state InitJac starts from is one compute reaches.
AfterScenarioCompute ==
    /\ Done(1)
    /\ inputs[1] = ScenarioInputs(ny)
    /\ outputs[1].vonmises = RunAlone(ny, E, G, ScenarioInputs(ny))
    /\ T = (IF fortran_flag THEN ZeroMat
            ELSE ElemFrame(ScenarioInputs(ny).nodes[ny - 1], ScenarioInputs(ny).nodes[ny]))
    /\ ielem[1] = (IF fortran_flag THEN 0 ELSE ny - 2)
    /\ loc[1] = NoLocals
    /\ entryT[1] = ZeroMat

\* ------------------------------------------------------------------------
\* Properties of one compute call (Spec)
\* ------------------------------------------------------------------------

\* Element i (1-based) of inp has zero length or lies along x_gl.
Degenerate(inp, i) ==
    /\ inp.nodes[i][2] = inp.nodes[i + 1][2]
    /\ inp.nodes[i][3] = inp.nodes[i + 1][3]

ValidGeometry(n, inp) == \A i \in 1..(n - 1) : ~Degenerate(inp, i)

FinitePair(p) == IsFin(p[1]) /\ IsFin(p[2])
NonFinitePair(p) == ~IsFin(p[1]) /\ ~IsFin(p[2])

\* C5: when compute has returned, the pair of every element i is the pair
\* compute gives on the two-node beam made of element i alone: it depends on
\* nodes[i], nodes[i+1], radius[i], disp[i], disp[i+1], E and G only.
C5_ElementIndependence ==
    Done(1) =>
        \A i \in 1..(ny - 1) :
            outputs[1].vonmises[i] = RunAlone(2, E, G, SubBeam(inputs[1], i))[1]

\* C5 witness: the loop itself has run two valid elements whose data differ
\* and has given them different finite nonzero pairs.
C5_Witness ==
    /\ Done(1) /\ ~fortran_flag /\ ny >= 3
    /\ ValidGeometry(ny, inputs[1])
    /\ inputs[1].nodes[1] # inputs[1].nodes[3]
    /\ inputs[1].disp[1] # inputs[1].disp[2]
    /\ inputs[1].radius[1] # inputs[1].radius[2]
    /\ FinitePair(outputs[1].vonmises[1]) /\ FinitePair(outputs[1].vonmises[2])
    /\ outputs[1].vonmises[1][1] # Zero
    /\ outputs[1].vonmises[1] # outputs[1].vonmises[2]

AllDispZero(inp) == \A i \in DOMAIN inp.disp : inp.disp[i] = ZeroDisp

\* C6: on a valid geometry with every displacement zero, every entry of
\* vonmises is zero when compute has returned.
C6_ZeroDispZeroStress ==
    (Done(1) /\ ValidGeometry(ny, inputs[1]) /\ AllDispZero(inputs[1])) =>
        \A i \in 1..(ny - 1) : outputs[1].vonmises[i] = ZeroPair

\* C6 witness: the loop has run on a valid two-element beam with no displacement.
C6_Witness ==
    /\ Done(1) /\ ~fortran_flag /\ ny >= 3
    /\ ValidGeometry(ny, inputs[1]) /\ AllDispZero(inputs[1])
    /\ inputs[1].nodes[1] # inputs[1].nodes[3]

\* The axial stretch u1x - u0x of element i of inp.
AxialStretch(inp, i) ==
    LET x == ElemFrame(inp.nodes[i], inp.nodes[i + 1])[1]
    IN  FSub(Dot3(x, Trans(inp.disp[i + 1])), Dot3(x, Trans(inp.disp[i])))

\* |E * stretch / L| of element i of inp.
AxialStress(e, inp, i) ==
    LET s == FDiv(FMul(e, AxialStretch(inp, i)),
                  norm(VSub(inp.nodes[i + 1], inp.nodes[i])))
    IN  Fin(Abs(s[2]))

EqualRotations(inp, i) == Rot(inp.disp[i]) = Rot(inp.disp[i + 1])

\* a and b are finite and differ by at most one unit of the scalar type.
Close(a, b) == IsFin(a) /\ IsFin(b) /\ Abs(a[2] - b[2]) <= 1

\* The scenario's stretch along the element axis and the element length.
ScenarioStretch == norm(Vec(1, 0, 1))
ScenarioL == norm(VSub(Vec(1, 0, 1), Vec(0, 0, 0)))

\* C7: for a valid element whose two nodes have equal rotations, the two
\* outputs are equal, and equal to |E * stretch / L| up to the rounding of
\* the square and the square root; on the scenario beam both are exactly
\* E * stretch / L.
C7_PureAxial ==
    Done(1) =>
        \A i \in 1..(ny - 1) :
            /\ (~Degenerate(inputs[1], i) /\ EqualRotations(inputs[1], i)) =>
                   /\ outputs[1].vonmises[i][1] = outputs[1].vonmises[i][2]
                   /\ Close(outputs[1].vonmises[i][1], AxialStress(E, inputs[1], i))
            /\ inputs[1] = ScenarioInputs(ny) =>
                   /\ outputs[1].vonmises[i][1] = FDiv(FMul(E, ScenarioStretch), ScenarioL)
                   /\ outputs[1].vonmises[i][2] = FDiv(FMul(E, ScenarioStretch), ScenarioL)

\* C7 witness: the scenario beam, stretched along its axis, has been computed
\* by the loop and its stress is not zero.
C7_Witness ==
    /\ Done(1) /\ ~fortran_flag
    /\ inputs[1] = ScenarioInputs(ny)
    /\ outputs[1].vonmises[1][1] # Zero

\* C7 witness of the general case: equal nonzero rotations, different translations.
C7_WitnessRot ==
    /\ Done(1) /\ ~fortran_flag
    /\ ~Degenerate(inputs[1], 1) /\ EqualRotations(inputs[1], 1)
    /\ Rot(inputs[1].disp[1]) # ZeroVec
    /\ outputs[1].vonmises[1][1] # Zero

\* C9: when compute has returned, the pair of every degenerate element (zero
\* length, or along x_gl) is non-finite, and the pair of every other element
\* is finite and the one its own two-node beam gives.
C9_DegenerateIsValue ==
    Done(1) =>
        \A i \in 1..(ny - 1) :
            IF Degenerate(inputs[1], i)
            THEN NonFinitePair(outputs[1].vonmises[i])
            ELSE /\ FinitePair(outputs[1].vonmises[i])
                 /\ outputs[1].vonmises[i] =
                        ElemBody(ZeroMat, E, G, inputs[1].nodes[i], inputs[1].nodes[i + 1],
                                 inputs[1].radius[i], inputs[1].disp[i],
                                 inputs[1].disp[i + 1]).vm

\* C9 witness: the loop has run past a zero-length element and an element
\* along x_gl and has returned.
C9_Witness ==
    /\ Done(1) /\ ~fortran_flag /\ ny >= 3
    /\ inputs[1].nodes[1] = inputs[1].nodes[2]
    /\ Degenerate(inputs[1], 1)
    /\ ~Degenerate(inputs[1], 2)
    /\ outputs[1].vonmises[2][1] # Zero

C9_WitnessParallel ==
    /\ Done(1) /\ ~fortran_flag /\ ny >= 3
    /\ ~Degenerate(inputs[1], 1)
    /\ Degenerate(inputs[1], 2) /\ inputs[1].nodes[2] # inputs[1].nodes[3]
    /\ outputs[1].vonmises[1][1] # Zero

\* ------------------------------------------------------------------------
\* Properties of compute across calls (SpecHist, SpecConc)
\* ------------------------------------------------------------------------

Reading(t) == pc[t] \in {"dot0", "dot1", "dot2", "dot3"}

\* C4: at each of the four reads of T in an iteration, the three rows of T
\* are the x_loc, y_loc, z_loc of that iteration's element.
C4_FrameFreshAtReads ==
    \A t \in DOMAIN pc : Reading(t) => T = ElemFrame(P0(t), P1(t))

\* C4 witness: the last read of the second iteration of a later call, where
\* every row of the frame differs from the row the previous iteration wrote
\* and T held another frame when the call was entered.
C4_Witness ==
    /\ pc[1] = "dot3" /\ ielem[1] = 1
    /\ entryT[1] # ZeroMat
    /\ LET prev == ElemFrame(inputs[1].nodes[1], inputs[1].nodes[2])
       IN  \A k \in 1..3 : T[k] # prev[k] /\ IsFin(T[k][1]) /\ IsFin(prev[k][1])

\* C8: when compute has returned, vonmises is what compute gives for the
\* same inputs on a freshly built instance, whatever calls came before.
C8_HistoryIndependent ==
    Done(1) => outputs[1].vonmises = RunAlone(ny, E, G, inputs[1])

\* C8 witness: the loop has returned from a call that was entered with the
\* frame of an earlier call in T, a frame other than the one it leaves.
C8_Witness ==
    /\ Done(1) /\ ~fortran_flag
    /\ entryT[1] # ZeroMat /\ entryT[1] # T
    /\ \A k \in 1..3 : IsFin(entryT[1][k][1])
    /\ \A i \in 1..(ny - 1) :
           FinitePair(outputs[1].vonmises[i]) /\ outputs[1].vonmises[i][1] # Zero

\* C3: when a compute call has returned, its vonmises is what the call gives
\* when run alone, whatever the other thread did meanwhile.
C3_NoInterference ==
    \A t \in DOMAIN pc : Done(t) => outputs[t].vonmises = RunAlone(ny, E, G, inputs[t])

\* ------------------------------------------------------------------------
\* Properties of compute_jacvec_product (SpecJac)
\* ------------------------------------------------------------------------

\* The derivative buffers after call k of the log.
AfterDIn(k) == IF k = Len(jv) THEN d_inputs ELSE jv[k + 1].d_inputs
AfterDOut(k) == IF k = Len(jv) THEN d_outputs ELSE jv[k + 1].d_outputs
AfterInputs(k) == IF k = Len(jv) THEN inputs[1] ELSE jv[k + 1].inputs
AfterOutputs(k) == IF k = Len(jv) THEN outputs[1] ELSE jv[k + 1].outputs

Returned(k, mode) == jv[k].mode = mode /\ jv[k].status = "returned"

\* C1: a call in mode 'fwd' leaves d_outputs['vonmises'] at its prior content
\* A plus the tangent t the backend returned, and a second such call on the
\* same seeds leaves it at A + t + t.
C1_FwdAccumulates ==
    \A k \in 1..Len(jv) :
        Returned(k, "fwd") =>
            /\ AfterDOut(k).vonmises =
                   AddRows(jv[k].d_outputs.vonmises, jv[k].ret.vonmisesd)
            /\ (k > 1 /\ Returned(k - 1, "fwd") /\ jv[k - 1].d_inputs = jv[k].d_inputs) =>
                   AfterDOut(k).vonmises =
                       AddRows(AddRows(jv[k - 1].d_outputs.vonmises,
                                       jv[k - 1].ret.vonmisesd),
                               jv[k - 1].ret.vonmisesd)

NonZeroRows(a) == \A i \in DOMAIN a : \A c \in DOMAIN a[i] : a[i][c] # Zero

\* C1 witness: two 'fwd' calls in a row into a buffer with no zero entry,
\* the tangent having no zero entry either.
C1_Witness ==
    /\ Len(jv) = 2
    /\ Returned(1, "fwd") /\ Returned(2, "fwd")
    /\ NonZeroRows(jv[1].d_outputs.vonmises)
    /\ NonZeroRows(jv[1].ret.vonmisesd)
    /\ d_outputs.vonmises # jv[2].d_outputs.vonmises

\* C2: a call in mode 'rev' leaves each of d_inputs['nodes'], ['radius'] and
\* ['disp'] at its prior content plus the adjoint the backend returned, and a
\* second such call on the same seed adds the adjoints a second time.
C2_RevAccumulates ==
    \A k \in 1..Len(jv) :
        Returned(k, "rev") =>
            /\ AfterDIn(k).nodes = AddRows(jv[k].d_inputs.nodes, jv[k].ret.nodesb)
            /\ AfterDIn(k).radius = AddScalars(jv[k].d_inputs.radius, jv[k].ret.radiusb)
            /\ AfterDIn(k).disp = AddRows(jv[k].d_inputs.disp, jv[k].ret.dispb)
            /\ (k > 1 /\ Returned(k - 1, "rev") /\ jv[k - 1].d_outputs = jv[k].d_outputs) =>
                   /\ AfterDIn(k).nodes =
                          AddRows(AddRows(jv[k - 1].d_inputs.nodes, jv[k - 1].ret.nodesb),
                                  jv[k - 1].ret.nodesb)
                   /\ AfterDIn(k).radius =
                          AddScalars(AddScalars(jv[k - 1].d_inputs.radius,
                                                jv[k - 1].ret.radiusb),
                                     jv[k - 1].ret.radiusb)
                   /\ AfterDIn(k).disp =
                          AddRows(AddRows(jv[k - 1].d_inputs.disp, jv[k - 1].ret.dispb),
                                  jv[k - 1].ret.dispb)

\* C2 witness: two 'rev' calls in a row into buffers that were not zero, the
\* adjoints of nodes, radius and disp all being nonzero somewhere.
C2_Witness ==
    /\ Len(jv) = 2
    /\ Returned(1, "rev") /\ Returned(2, "rev")
    /\ jv[1].d_inputs.nodes[1] # ZeroVec
    /\ jv[1].d_inputs.radius[1] # Zero
    /\ jv[1].d_inputs.disp[2] # ZeroDisp
    /\ jv[1].ret.nodesb[1] # ZeroVec
    /\ jv[1].ret.radiusb[1] # Zero
    /\ jv[1].ret.dispb[1] # ZeroDisp

\* C10: a call in mode 'fwd' leaves the three d_inputs buffers as they were,
\* a call in mode 'rev' leaves d_outputs['vonmises'] as it was, a call in any
\* other mode leaves all four as they were, and every call leaves inputs and
\* outputs as they were.
C10_ModeFrame ==
    \A k \in 1..Len(jv) :
        /\ AfterInputs(k) = jv[k].inputs
        /\ AfterOutputs(k) = jv[k].outputs
        /\ jv[k].mode = "fwd" => AfterDIn(k) = jv[k].d_inputs
        /\ jv[k].mode = "rev" => AfterDOut(k) = jv[k].d_outputs
        /\ jv[k].mode \notin {"fwd", "rev"} =>
               AfterDIn(k) = jv[k].d_inputs /\ AfterDOut(k) = jv[k].d_outputs

\* C10 witness: a call in another mode between buffers that a 'rev' call
\* would have changed, after a 'fwd' call that changed d_outputs.
C10_Witness ==
    /\ Len(jv) = 2
    /\ Returned(1, "fwd") /\ jv[2].d_outputs # jv[1].d_outputs
    /\ jv[2].mode = "other"
    /\ calc_vonmises_b(ny, jac, d_outputs.vonmises).nodesb[1] # ZeroVec

====
